---- MODULE Spec2Model ----
(***************************************************************************)
(* Model of the 5-level difficulty tag auto-assigner (src/__init__.py):    *)
(* the classifier judge_difficulty, the batch procedure                    *)
(* _assign_difficulty_tags, the Tools-menu trigger set_difficulty_tags     *)
(* with its QueryOp callbacks, and the settings save path                  *)
(* _write_config_keep_unknown.                                             *)
(*                                                                         *)
(* Four specifications share the variables:                                *)
(*   SpecJudge   the classifier applied to bounded cards and thresholds;   *)
(*   SpecAssign  the batch procedure applied to bounded note stores;       *)
(*   SpecConfig  the settings dialog's save over the add-on config store;  *)
(*   Spec        the trigger, its getText dialog, the background           *)
(*               operations and their callbacks, with saves in between.    *)
(***************************************************************************)
EXTENDS Integers, Sequences, FiniteSets, TLC

VARIABLES
    jc,         \* SpecJudge: the card handed to judge_difficulty
    jcfg,       \* SpecJudge: the thresholds handed to judge_difficulty
    jlabel,     \* SpecJudge: the label judge_difficulty returned
    stored,     \* the add-on manager's stored config (a dict, or None)
    tags,       \* the collection: note id -> the note's tag list
    dialogs,    \* Spec: the open getText dialogs, innermost last: the cfg
                \*       each call of set_difficulty_tags read before asking
    pending,    \* Spec: the scheduled QueryOps, oldest first: [search, cfg]
    done,       \* Spec: ops that returned and whose on_success is still to
                \*       be called, oldest first: [processed, matched]
    ran,        \* Spec: the last step was an op, recorded in the six below
    cfg,        \* Spec: the thresholds that op was given
    cid_list,   \* Spec: the cards that op got from the collection, in order
    pre,        \* Spec: the tag lists when that op started
    processed,  \* Spec: the value that op returned
    updates,    \* Spec: note id -> col.update_note calls made by that op
    reads,      \* Spec: note id -> col.get_note calls made by that op
    msg,        \* Spec: the tooltip shown if the last step was on_success
    reported,   \* Spec: the op that tooltip was about: [processed, matched]
    before,     \* SpecConfig: the stored config when the last save started
    updated,    \* SpecConfig: the spin box values the last save was given
    calls,      \* SpecConfig: add-on manager calls made by the last save
    raised,     \* SpecConfig: the last save raised to the dialog
    saved       \* SpecConfig: the dialog showed "Settings saved." and closed

vars == <<jc, jcfg, jlabel, stored, tags, dialogs, pending, done, ran, cfg,
          cid_list, pre, processed, updates, reads, msg, reported,
          before, updated, calls, raised, saved>>

judgeVars == <<jc, jcfg, jlabel>>
runVars == <<tags, dialogs, pending, done, ran, cfg, cid_list, pre, processed,
            updates, reads, msg, reported>>
saveVars == <<before, updated, calls, raised, saved>>

(***************************************************************************)
(* Tags and defaults                                                       *)
(***************************************************************************)
VERY_HARD_TAG == "VeryHard"
HARD_TAG == "Hard"
MEDIUM_TAG == "Medium"
EASY_TAG == "Easy"
VERY_EASY_TAG == "VeryEasy"

ALL_TAGS == <<VERY_HARD_TAG, HARD_TAG, MEDIUM_TAG, EASY_TAG, VERY_EASY_TAG>>

\* The five-tag vocabulary, as a set
TagSet == {ALL_TAGS[i] : i \in 1..Len(ALL_TAGS)}

DEFAULTS ==
    [ very_hard_lapses_min   |-> 5,
      very_hard_ease_max_pct |-> 200,
      hard_lapses_min        |-> 3,
      hard_ease_max_pct      |-> 230,
      easy_lapses_max        |-> 0,
      easy_ivl_min           |-> 21,
      easy_ease_min_pct      |-> 250,
      very_easy_ivl_min      |-> 90,
      very_easy_ease_min_pct |-> 280 ]

\* DEFAULTS.keys(), in the dict's insertion order
DefaultKeys ==
    << "very_hard_lapses_min", "very_hard_ease_max_pct",
       "hard_lapses_min", "hard_ease_max_pct",
       "easy_lapses_max", "easy_ivl_min", "easy_ease_min_pct",
       "very_easy_ivl_min", "very_easy_ease_min_pct" >>

(***************************************************************************)
(* Python values: dicts are functions on their key set, None is a value    *)
(* of its own, lists are sequences.                                        *)
(***************************************************************************)
None == [None |-> TRUE]
EmptyDict == <<>>

\* d[k] = v
DictSet(d, k, v) == [x \in (DOMAIN d) \cup {k} |-> IF x = k THEN v ELSE d[x]]

\* `v or {}`: None and the empty dict are falsy
OrEmptyDict(v) == IF v = None \/ DOMAIN v = {} THEN EmptyDict ELSE v

\* t in lst
InList(lst, t) == \E i \in 1..Len(lst) : lst[i] = t

\* The mutated removal: the head of the list goes, whatever it is.
ListRemove_Head(lst, t) == Tail(lst)

\* lst.remove(t): drops the first occurrence of t
ListRemove(lst, t) ==
    LET i == CHOOSE j \in 1..Len(lst) :
                 lst[j] = t /\ \A k \in 1..(j - 1) : lst[k] # t
    IN  SubSeq(lst, 1, i - 1) \o SubSeq(lst, i + 1, Len(lst))

(***************************************************************************)
(* judge_difficulty                                                        *)
(***************************************************************************)
\* The mutated classifier: the Very Easy rule tried before the Hard rule.
judge_difficulty_VeryEasyBeforeHard(c, conf) ==
    LET lapses == c.lapses
        ivl == c.ivl
        ease == c.factor
        vh_lapses == conf.very_hard_lapses_min
        vh_ease_max == conf.very_hard_ease_max_pct * 10
        h_lapses == conf.hard_lapses_min
        h_ease_max == conf.hard_ease_max_pct * 10
        e_lapses_max == conf.easy_lapses_max
        e_ivl_min == conf.easy_ivl_min
        e_ease_min == conf.easy_ease_min_pct * 10
        ve_ivl_min == conf.very_easy_ivl_min
        ve_ease_min == conf.very_easy_ease_min_pct * 10
    IN  IF lapses >= vh_lapses \/ ease < vh_ease_max THEN VERY_HARD_TAG
        ELSE IF ivl >= ve_ivl_min \/ ease >= ve_ease_min THEN VERY_EASY_TAG
        ELSE IF lapses >= h_lapses \/ ease < h_ease_max THEN HARD_TAG
        ELSE IF (lapses <= e_lapses_max) /\ (ivl >= e_ivl_min) /\ (ease >= e_ease_min)
             THEN EASY_TAG
        ELSE MEDIUM_TAG

\* The mutated classifier: the Hard rule ignores the lapse count.
judge_difficulty_HardIgnoresLapses(c, conf) ==
    LET lapses == c.lapses
        ivl == c.ivl
        ease == c.factor
        vh_lapses == conf.very_hard_lapses_min
        vh_ease_max == conf.very_hard_ease_max_pct * 10
        h_ease_max == conf.hard_ease_max_pct * 10
        e_lapses_max == conf.easy_lapses_max
        e_ivl_min == conf.easy_ivl_min
        e_ease_min == conf.easy_ease_min_pct * 10
        ve_ivl_min == conf.very_easy_ivl_min
        ve_ease_min == conf.very_easy_ease_min_pct * 10
    IN  IF lapses >= vh_lapses \/ ease < vh_ease_max THEN VERY_HARD_TAG
        ELSE IF ease < h_ease_max THEN HARD_TAG
        ELSE IF ivl >= ve_ivl_min \/ ease >= ve_ease_min THEN VERY_EASY_TAG
        ELSE IF (lapses <= e_lapses_max) /\ (ivl >= e_ivl_min) /\ (ease >= e_ease_min)
             THEN EASY_TAG
        ELSE MEDIUM_TAG

\* c: a card (fields lapses, ivl, factor); conf: the nine thresholds, whole
\* numbers, so that int(conf[k]) is conf[k].
judge_difficulty(c, conf) ==
    LET lapses == c.lapses
        ivl == c.ivl
        ease == c.factor
        vh_lapses == conf.very_hard_lapses_min
        vh_ease_max == conf.very_hard_ease_max_pct * 10
        h_lapses == conf.hard_lapses_min
        h_ease_max == conf.hard_ease_max_pct * 10
        e_lapses_max == conf.easy_lapses_max
        e_ivl_min == conf.easy_ivl_min
        e_ease_min == conf.easy_ease_min_pct * 10
        ve_ivl_min == conf.very_easy_ivl_min
        ve_ease_min == conf.very_easy_ease_min_pct * 10
    IN  IF lapses >= vh_lapses \/ ease < vh_ease_max THEN VERY_HARD_TAG
        ELSE IF lapses >= h_lapses \/ ease < h_ease_max THEN HARD_TAG
        ELSE IF ivl >= ve_ivl_min \/ ease >= ve_ease_min THEN VERY_EASY_TAG
        ELSE IF (lapses <= e_lapses_max) /\ (ivl >= e_ivl_min) /\ (ease >= e_ease_min)
             THEN EASY_TAG
        ELSE MEDIUM_TAG

(***************************************************************************)
(* get_cfg                                                                 *)
(***************************************************************************)
RECURSIVE SetDefaults(_, _)
\* for k, v in DEFAULTS.items(): conf.setdefault(k, v), from the i-th key on
SetDefaults(conf, i) ==
    IF i > Len(DefaultKeys) THEN conf
    ELSE LET k == DefaultKeys[i]
         IN  SetDefaults(IF k \in DOMAIN conf THEN conf ELSE DictSet(conf, k, DEFAULTS[k]),
                         i + 1)

\* st: what mw.addonManager.getConfig returns, a copy of the stored config
get_cfg(st) == SetDefaults(OrEmptyDict(st), 1)

(***************************************************************************)
(* _assign_difficulty_tags                                                 *)
(*                                                                         *)
(* col is the collection as the procedure sees it: tags (note id -> tag    *)
(* list), and the counts of get_note and update_note calls per note.       *)
(* cl is cid_list with each id replaced by the card col.get_card gives     *)
(* (fields nid, reps, lapses, ivl, factor).  note_stats is a Python dict:  *)
(* keys in insertion order, and the value of each key.                     *)
(***************************************************************************)
EmptyStats == [keys |-> <<>>, val |-> <<>>]

\* The mutated dict store: an existing key keeps its first value.
StatsSet_KeepFirst(note_stats, nid, tag) ==
    IF nid \in DOMAIN note_stats.val
        THEN note_stats
        ELSE [keys |-> Append(note_stats.keys, nid),
              val |-> DictSet(note_stats.val, nid, tag)]

\* note_stats[nid] = tag: a new key goes last, an existing key keeps its place
StatsSet(note_stats, nid, tag) ==
    IF nid \in DOMAIN note_stats.val
        THEN [note_stats EXCEPT !.val = DictSet(note_stats.val, nid, tag)]
        ELSE [keys |-> Append(note_stats.keys, nid),
              val |-> DictSet(note_stats.val, nid, tag)]

RECURSIVE JudgeCards_CountNew(_, _, _, _)
\* The mutated first loop: cards with reps = 0 are judged like the others.
JudgeCards_CountNew(cl, conf, i, note_stats) ==
    IF i > Len(cl) THEN note_stats
    ELSE JudgeCards_CountNew(cl, conf, i + 1,
             StatsSet(note_stats, cl[i].nid, judge_difficulty(cl[i], conf)))

RECURSIVE JudgeCards(_, _, _, _)
\* 1. Judge difficulty per card, from the i-th card on
JudgeCards(cl, conf, i, note_stats) ==
    IF i > Len(cl) THEN note_stats
    ELSE LET c == cl[i]
         IN  IF c.reps = 0
                 THEN JudgeCards(cl, conf, i + 1, note_stats)
                 ELSE JudgeCards(cl, conf, i + 1,
                          StatsSet(note_stats, c.nid, judge_difficulty(c, conf)))

\* The mutated removal loop: no existing tag is removed.
RemoveDifficultyTags_Keep(lst, i) == lst

\* The mutated removal loop: the whole tag list is cleared.
RemoveDifficultyTags_Clear(lst, i) == <<>>

RECURSIVE RemoveDifficultyTags(_, _)
\* for t in ALL_TAGS: if t in note.tags: note.tags.remove(t), from the i-th tag on
RemoveDifficultyTags(lst, i) ==
    IF i > Len(ALL_TAGS) THEN lst
    ELSE LET t == ALL_TAGS[i]
         IN  IF InList(lst, t)
                 THEN RemoveDifficultyTags(ListRemove(lst, t), i + 1)
                 ELSE RemoveDifficultyTags(lst, i + 1)

RECURSIVE ApplyTags(_, _, _)
\* 2. Apply tags per note, from the i-th entry of note_stats on.  `changed`
\* is True for every note, so each one is updated and counted.
ApplyTags(col, note_stats, i) ==
    IF i > Len(note_stats.keys) THEN col
    ELSE LET nid == note_stats.keys[i]
             tag == note_stats.val[nid]
             note_tags == Append(RemoveDifficultyTags(col.tags[nid], 1), tag)
         IN  ApplyTags([tags |-> [col.tags EXCEPT ![nid] = note_tags],
                        reads |-> [col.reads EXCEPT ![nid] = @ + 1],
                        updates |-> [col.updates EXCEPT ![nid] = @ + 1],
                        processed |-> col.processed + 1],
                       note_stats, i + 1)

\* The whole procedure on the tag lists store, the cards cl and thresholds conf
assign_difficulty_tags(store, cl, conf) ==
    LET col == [tags |-> store,
                reads |-> [n \in DOMAIN store |-> 0],
                updates |-> [n \in DOMAIN store |-> 0],
                processed |-> 0]
    IN  IF Len(cl) = 0 THEN col
        ELSE ApplyTags(col, JudgeCards(cl, conf, 1, EmptyStats), 1)

(***************************************************************************)
(* _write_config_keep_unknown                                              *)
(*                                                                         *)
(* The add-on manager is outside this add-on.  getConfig answers a copy of *)
(* the stored config, or None when there is none, or raises when the store *)
(* is unavailable.  writeConfig and setConfig either store the dict they   *)
(* are given or raise (an I/O error, a build without that method).  g, w   *)
(* and s are what getConfig, writeConfig and setConfig do when called.     *)
(***************************************************************************)
RECURSIVE OverwriteKnown(_, _, _)
\* for k in DEFAULTS.keys(): if k in upd: base[k] = upd[k], from the i-th key on
OverwriteKnown(base, upd, i) ==
    IF i > Len(DefaultKeys) THEN base
    ELSE LET k == DefaultKeys[i]
         IN  OverwriteKnown(IF k \in DOMAIN upd THEN DictSet(base, k, upd[k]) ELSE base,
                            upd, i + 1)

Call(api, result) == [api |-> api, result |-> result]

\* What a call of the add-on manager does: return, or raise
Outcomes == {"ok", "raise"}

\* st: the stored config; upd: the dict to save.  Gives the stored config
\* afterwards, the calls made, and whether an exception reached the caller.
\* The read of line 74 is in no try block: its exception is the caller's.
write_config_keep_unknown(st, upd, g, w, s) ==
    IF g = "raise"
        THEN [stored |-> st, raised |-> TRUE, calls |-> <<Call("getConfig", "raise")>>]
    ELSE
    LET base == OverwriteKnown(OrEmptyDict(st), upd, 1)
        read == <<Call("getConfig", "ok")>>
    IN  IF w = "ok"
            THEN [stored |-> base, raised |-> FALSE,
                  calls |-> read \o <<Call("writeConfig", "ok")>>]
        ELSE IF s = "ok"
            THEN [stored |-> base, raised |-> FALSE,
                  calls |-> read \o <<Call("writeConfig", "raise"), Call("setConfig", "ok")>>]
        ELSE [stored |-> st, raised |-> FALSE,
              calls |-> read \o <<Call("writeConfig", "raise"), Call("setConfig", "raise")>>]

(***************************************************************************)
(* Bounded inputs: cards and thresholds for the classifier, and the        *)
(* collection, the queries and the messages of a run                       *)
(***************************************************************************)
\* Grid cards have lapses in 0..MaxLapses and intervals in 0..MaxIvl; grid
\* thresholds range over the same values, percentages over 0..MaxPct
MaxLapses == 1
MaxIvl == 1
MaxPct == 1

NotJudged == "(not judged)"

\* Ease factors around the scaled percentages 0, 10, ... , 10*MaxPct
EaseValues == {5 * k : k \in 1..(2 * MaxPct + 1)}

\* The spec's scenario cards, classified under DEFAULTS
Scenario1 == [lapses |-> 6, ivl |-> 100, factor |-> 3000]
Scenario2 == [lapses |-> 0, ivl |-> 30, factor |-> 2600]
Scenario3 == [lapses |-> 0, ivl |-> 95, factor |-> 2100]
Scenario4 == [lapses |-> 1, ivl |-> 5, factor |-> 2400]
ScenarioCards == {Scenario1, Scenario2, Scenario3, Scenario4}

GridCards == [lapses : 0..MaxLapses, ivl : 0..MaxIvl, factor : EaseValues]

GridCfgs ==
    [ very_hard_lapses_min   : 0..MaxLapses,
      very_hard_ease_max_pct : 0..MaxPct,
      hard_lapses_min        : 0..MaxLapses,
      hard_ease_max_pct      : 0..MaxPct,
      easy_lapses_max        : 0..MaxLapses,
      easy_ivl_min           : 0..MaxIvl,
      easy_ease_min_pct      : 0..MaxPct,
      very_easy_ivl_min      : 0..MaxIvl,
      very_easy_ease_min_pct : 0..MaxPct ]

\* A query is answered with at most MaxCards cards; the notes hold at most
\* MaxTags tags in all when the procedure is called
MaxCards == 2
MaxTags == 2

\* The notes of the collection, by note id
Notes == {1, 2}

\* Tags outside the five-tag vocabulary
OtherTags == {"foo", "bar"}

\* The tags notes carry before a call: the other tags, and difficulty tags
\* left by earlier runs or attached by hand
StoreTags == OtherTags \cup {HARD_TAG, EASY_TAG, VERY_EASY_TAG}

\* A card never reviewed, as the collection creates it (judged, it would
\* be VeryHard: factor 0 is below every positive ease threshold)
NewCardStats == [reps |-> 0, lapses |-> 0, ivl |-> 0, factor |-> 0]

\* Reviewed cards: the spec's scenario cards 2 and 3
ReviewedStats ==
    {[reps |-> 1, lapses |-> sc.lapses, ivl |-> sc.ivl, factor |-> sc.factor] :
        sc \in {Scenario2, Scenario3}}

Cards ==
    {[nid |-> n, reps |-> st.reps, lapses |-> st.lapses, ivl |-> st.ivl,
      factor |-> st.factor] : n \in Notes, st \in ReviewedStats \cup {NewCardStats}}

\* What the collection can answer to a card query: up to MaxCards cards
CardSeqs == UNION {[1..k -> Cards] : k \in 0..MaxCards}

\* The stored config the trigger meets: the user lowered one threshold, the
\* other eight keys are absent and come from DEFAULTS
StoredOverride == [hard_ease_max_pct |-> 200]

\* A text is the sequence of its characters' Unicode code points.
\* Texts typed into getText: nothing; whitespace only (tab, vertical tab,
\* no-break space); and the query "d" padded by a file separator, a space
\* and a newline
Searches == {<<>>, <<9, 11, 160>>, <<28, 32, 100, 10>>}

\* The characters str.strip() removes when called without an argument, the
\* ones str.isspace() holds of: tab, newline, vertical tab, form feed,
\* carriage return, the separators 0x1c-0x1f, space, next line 0x85,
\* no-break space 0xa0, ogham space 0x1680, the spaces 0x2000-0x200a, line
\* and paragraph separator 0x2028 and 0x2029, narrow no-break space 0x202f,
\* medium mathematical space 0x205f and ideographic space 0x3000
Whitespace ==
    {9, 10, 11, 12, 13, 28, 29, 30, 31, 32, 133, 160, 5760,
     8232, 8233, 8239, 8287, 12288} \cup (8192..8202)

RECURSIVE LStrip(_)
LStrip(str) ==
    IF str # <<>> /\ Head(str) \in Whitespace THEN LStrip(Tail(str)) ELSE str

RECURSIVE RStrip(_)
RStrip(str) ==
    IF str # <<>> /\ str[Len(str)] \in Whitespace
    THEN RStrip(SubSeq(str, 1, Len(str) - 1))
    ELSE str

\* search.strip()
Strip(str) == RStrip(LStrip(str))

NoMsg == [text |-> "", n |-> 0]
NoCardsMsg == [text |-> "No cards matched the search.", n |-> 0]
AssignedMsg(k) == [text |-> "Assigned 5-level difficulty tags to N notes.", n |-> k]

\* An op's outcome as its callback needs it: the count it returned and the
\* number of cards the collection gave it
NoDone == [processed |-> 0, matched |-> 0]

NoTags == [n \in Notes |-> <<>>]
NoCalls == [n \in Notes |-> 0]

RECURSIVE SumLen(_, _)
SumLen(f, S) ==
    IF S = {} THEN 0
    ELSE LET n == CHOOSE x \in S : TRUE IN Len(f[n]) + SumLen(f, S \ {n})


\* The values the variables of the other specifications rest at
TriggerIdle ==
    /\ dialogs = <<>> /\ pending = <<>> /\ done = <<>>
    /\ msg = NoMsg /\ reported = NoDone
OpIdle ==
    /\ ran = FALSE /\ cfg = DEFAULTS
    /\ cid_list = <<>> /\ pre = NoTags /\ processed = 0
    /\ updates = NoCalls /\ reads = NoCalls
RunIdle == tags = NoTags /\ TriggerIdle /\ OpIdle
SaveIdle ==
    /\ before = None /\ updated = DEFAULTS
    /\ calls = <<>> /\ raised = FALSE /\ saved = FALSE
JudgeIdle == jc = Scenario1 /\ jcfg = DEFAULTS /\ jlabel = NotJudged

(***************************************************************************)
(* SpecJudge: judge_difficulty applied to the bounded inputs               *)
(***************************************************************************)
InitJudge ==
    /\ \/ jc \in GridCards /\ jcfg \in GridCfgs
       \/ jc \in ScenarioCards /\ jcfg = DEFAULTS
    /\ jlabel = NotJudged
    /\ stored = None
    /\ RunIdle
    /\ SaveIdle

\* one call judge_difficulty(jc, jcfg)
Judge ==
    /\ jlabel = NotJudged
    /\ jlabel' = judge_difficulty(jc, jcfg)
    /\ UNCHANGED <<jc, jcfg, stored, runVars, saveVars>>

NextJudge == Judge

SpecJudge == InitJudge /\ [][NextJudge]_vars

\* The four rules of the decision table, each read on its own
RuleVeryHard(c, conf) ==
    c.lapses >= conf.very_hard_lapses_min \/ c.factor < conf.very_hard_ease_max_pct * 10
RuleHard(c, conf) ==
    c.lapses >= conf.hard_lapses_min \/ c.factor < conf.hard_ease_max_pct * 10
RuleVeryEasy(c, conf) ==
    c.ivl >= conf.very_easy_ivl_min \/ c.factor >= conf.very_easy_ease_min_pct * 10
RuleEasy(c, conf) ==
    /\ c.lapses <= conf.easy_lapses_max
    /\ c.ivl >= conf.easy_ivl_min
    /\ c.factor >= conf.easy_ease_min_pct * 10

\* C1: for every card with lapses >= 0, interval >= 0, ease > 0 and every
\* nine non-negative thresholds, judge_difficulty returns one of the five
\* labels, and it is the label of the first rule that matches in the order
\* VeryHard, Hard, VeryEasy, Easy, with Medium when none matches.
C1_FirstMatchingRule ==
    (jlabel # NotJudged) =>
        /\ jlabel \in TagSet
        /\ (jlabel = VERY_HARD_TAG) <=> RuleVeryHard(jc, jcfg)
        /\ (jlabel = HARD_TAG) <=>
               (~RuleVeryHard(jc, jcfg) /\ RuleHard(jc, jcfg))
        /\ (jlabel = VERY_EASY_TAG) <=>
               (~RuleVeryHard(jc, jcfg) /\ ~RuleHard(jc, jcfg) /\ RuleVeryEasy(jc, jcfg))
        /\ (jlabel = EASY_TAG) <=>
               (/\ ~RuleVeryHard(jc, jcfg) /\ ~RuleHard(jc, jcfg)
                /\ ~RuleVeryEasy(jc, jcfg) /\ RuleEasy(jc, jcfg))
        /\ (jlabel = MEDIUM_TAG) <=>
               (/\ ~RuleVeryHard(jc, jcfg) /\ ~RuleHard(jc, jcfg)
                /\ ~RuleVeryEasy(jc, jcfg) /\ ~RuleEasy(jc, jcfg))

\* A card on which the Hard rule and the VeryEasy rule both match was judged
C1_Witness ==
    /\ jlabel = HARD_TAG
    /\ RuleVeryEasy(jc, jcfg)
    /\ RuleEasy(jc, jcfg)

\* C2 as stated: under DEFAULTS the card lapses = 0, interval = 95,
\* ease = 2100 is labelled VeryEasy.
C2_Scenario3VeryEasy ==
    (jlabel # NotJudged /\ jcfg = DEFAULTS /\ jc = Scenario3) => jlabel = VERY_EASY_TAG

\* C2 as amended: under DEFAULTS the card lapses = 0, interval = 95,
\* ease = 2100 is labelled Hard (ease 2100 < 2300 matches the Hard rule, which
\* is tried before the VeryEasy rule).
C2_Scenario3Hard ==
    (jlabel # NotJudged /\ jcfg = DEFAULTS /\ jc = Scenario3) => jlabel = HARD_TAG

C2_Witness ==
    /\ jcfg = DEFAULTS /\ jc = Scenario3 /\ jlabel = HARD_TAG
    /\ jc.ivl >= DEFAULTS.very_easy_ivl_min

\* Difficulty scale: VeryEasy < Easy < Medium < Hard < VeryHard
Rank(t) ==
    CASE t = VERY_EASY_TAG -> 1
      [] t = EASY_TAG -> 2
      [] t = MEDIUM_TAG -> 3
      [] t = HARD_TAG -> 4
      [] t = VERY_HARD_TAG -> 5

\* Lapse counts at and above c's: the next MaxLapses ones and every count at
\* which a lapse threshold of conf is met or first exceeded
MoreLapses(c, conf) ==
    {l \in (c.lapses..(c.lapses + MaxLapses))
            \cup {conf.very_hard_lapses_min, conf.hard_lapses_min,
                  conf.easy_lapses_max, conf.easy_lapses_max + 1} :
        l >= c.lapses}

\* C5: with interval and ease fixed, a larger lapse count never gives an
\* easier label on the scale VeryEasy < Easy < Medium < Hard < VeryHard, and
\* a card with lapses >= hard_lapses_min is never Medium, Easy or VeryEasy.
C5_MonotoneInLapses ==
    (jlabel # NotJudged) =>
        /\ \A l2 \in MoreLapses(jc, jcfg) :
               Rank(judge_difficulty([jc EXCEPT !.lapses = l2], jcfg)) >= Rank(jlabel)
        /\ (jc.lapses >= jcfg.hard_lapses_min) => jlabel \in {HARD_TAG, VERY_HARD_TAG}

\* A card judged Easy that one more lapse makes harder, and a card at the
\* Hard lapse threshold whose interval and ease match the VeryEasy rule
C5_Witness ==
    \/ /\ jlabel = EASY_TAG
       /\ Rank(judge_difficulty([jc EXCEPT !.lapses = jc.lapses + 1], jcfg)) > Rank(EASY_TAG)
    \/ /\ jlabel = HARD_TAG
       /\ jc.lapses >= jcfg.hard_lapses_min
       /\ jc.factor >= jcfg.hard_ease_max_pct * 10
       /\ RuleVeryEasy(jc, jcfg)

(***************************************************************************)
(* The batch procedure as a step, shared by SpecAssign and Spec            *)
(***************************************************************************)
\* col.find_cards(text): the collection's answer to a query is any sequence
\* of its cards
find_cards(text) == CardSeqs

\* col.db.list("SELECT id FROM cards"): every card of the collection, which
\* may hold any cards
list_all_cards == CardSeqs

\* No op's record is held
ClearOp ==
    /\ ran' = FALSE
    /\ cfg' = DEFAULTS
    /\ cid_list' = <<>>
    /\ pre' = NoTags
    /\ processed' = 0
    /\ updates' = NoCalls
    /\ reads' = NoCalls

\* The last step was neither an op nor a callback
ClearRun ==
    /\ ClearOp
    /\ msg' = NoMsg
    /\ reported' = NoDone

\* One call _assign_difficulty_tags(col, text, c), the collection answering
\* its card query with cl; the call and what it did are recorded
Op(text, c, cl) ==
    /\ cl \in (IF Strip(text) # <<>> THEN find_cards(text) ELSE list_all_cards)
    /\ LET r == assign_difficulty_tags(tags, cl, c)
       IN  /\ tags' = r.tags
           /\ processed' = r.processed
           /\ updates' = r.updates
           /\ reads' = r.reads
    /\ cfg' = c
    /\ cid_list' = cl
    /\ pre' = tags
    /\ ran' = TRUE

(***************************************************************************)
(* SpecAssign: _assign_difficulty_tags applied to the bounded stores      *)
(***************************************************************************)
\* Tag lists a note can carry: no tag twice, as the note store keeps them
TagLists ==
    {l \in UNION {[1..k -> StoreTags] : k \in 0..MaxTags} :
        \A i, j \in 1..Len(l) : i # j => l[i] # l[j]}

\* The note stores the procedure is called on
TagStores == {f \in [Notes -> TagLists] : SumLen(f, Notes) <= MaxTags}

InitAssign ==
    /\ stored = StoredOverride
    /\ tags \in TagStores
    /\ TriggerIdle
    /\ OpIdle
    /\ JudgeIdle
    /\ SaveIdle

\* The call the trigger's QueryOp makes, with the text typed and the
\* thresholds get_cfg() gave
AssignDifficultyTags(text, cl) ==
    /\ ~ran
    /\ Op(text, get_cfg(stored), cl)
    /\ UNCHANGED <<dialogs, pending, done, msg, reported, stored, judgeVars, saveVars>>

NextAssign == \E text \in Searches, cl \in CardSeqs : AssignDifficultyTags(text, cl)

SpecAssign == InitAssign /\ [][NextAssign]_vars

(***************************************************************************)
(* Properties of a call, read in the state it leaves (ran):                *)
(* pre holds the tag lists it started from, cid_list the cards it got.     *)
(***************************************************************************)
Ran == ran

IsDifficultyTag(t) == t \in TagSet
IsOtherTag(t) == t \notin TagSet

DifficultyTagsOf(lst) == SelectSeq(lst, IsDifficultyTag)
OtherTagsOf(lst) == SelectSeq(lst, IsOtherTag)

DupFree(lst) == \A i, j \in 1..Len(lst) : i # j => lst[i] # lst[j]

\* Card i of the run belongs to note n and has been reviewed
Qualifies(i, n) == cid_list[i].nid = n /\ cid_list[i].reps > 0

\* Note n owns at least one selected card with reps > 0
Owns(n) == \E i \in 1..Len(cid_list) : Qualifies(i, n)

\* The last such card, in the order the cards were supplied
LastCard(n) ==
    cid_list[CHOOSE i \in 1..Len(cid_list) :
                 Qualifies(i, n) /\ \A j \in (i + 1)..Len(cid_list) : ~Qualifies(j, n)]

\* C3 as stated: after the run no note in the store has more than one of
\* the five difficulty tags, whatever the query, the cards and the tags before.
C3_NoNoteHasTwo ==
    Ran => \A n \in Notes : Cardinality({t \in TagSet : InList(tags[n], t)}) <= 1

\* C3 as amended: after the run, no note that owns a selected card with
\* reps > 0 (and whose tag list was duplicate-free before the run) has more
\* than one difficulty tag, even if it carried several of them before; a
\* note that owns no such card keeps the tag list it had.
C3_ProcessedNoteHasOne ==
    Ran => \A n \in Notes :
        /\ (Owns(n) /\ DupFree(pre[n])) => Len(DifficultyTagsOf(tags[n])) <= 1
        /\ ~Owns(n) => tags[n] = pre[n]

\* A processed note that carried two different difficulty tags has one left,
\* beside a note the run did not process
C3_Witness ==
    /\ Ran
    /\ \E n \in Notes :
        /\ Owns(n)
        /\ DupFree(pre[n])
        /\ Len(DifficultyTagsOf(pre[n])) >= 2
        /\ Len(DifficultyTagsOf(tags[n])) = 1
    /\ \E n \in Notes : ~Owns(n)

\* C4: when every note's tag list was duplicate-free before the run,
\* running _assign_difficulty_tags again on the same cards and thresholds
\* leaves every note's tags as the first run left them and returns the same
\* count.
C4_Idempotent ==
    (Ran /\ \A n \in Notes : DupFree(pre[n])) =>
        LET again == assign_difficulty_tags(tags, cid_list, cfg)
        IN  /\ again.tags = tags
            /\ again.processed = processed

\* A first run that changed tags and counted a note
C4_Witness ==
    /\ Ran
    /\ \A n \in Notes : DupFree(pre[n])
    /\ processed >= 1
    /\ \E n \in Notes : Owns(n) /\ DifficultyTagsOf(pre[n]) # DifficultyTagsOf(tags[n])
    /\ \E n \in Notes : Owns(n) /\ Len(pre[n]) >= 2

\* C6: the run adds and removes no tag outside the five-tag vocabulary:
\* every note's other tags are the same, in the same order, before and after.
C6_OtherTagsKept ==
    Ran => \A n \in Notes : OtherTagsOf(tags[n]) = OtherTagsOf(pre[n])

\* Scenario 5: tags foo, Hard and the new label VeryEasy give foo, VeryEasy
C6_Witness ==
    /\ Ran
    /\ \E n \in Notes :
        /\ pre[n] = <<"foo", HARD_TAG>>
        /\ tags[n] = <<"foo", VERY_EASY_TAG>>

\* C7: the run returns the number of distinct notes owning a selected card
\* with reps > 0, update_note is called once for each of them and for no
\* other note, and with zero cards it returns 0 and reads and changes no note.
C7_CountsOwningNotes ==
    Ran =>
        /\ processed = Cardinality({n \in Notes : Owns(n)})
        /\ \A n \in Notes : updates[n] = (IF Owns(n) THEN 1 ELSE 0)
        /\ (cid_list = <<>>) =>
               /\ processed = 0
               /\ \A n \in Notes : reads[n] = 0 /\ updates[n] = 0
               /\ tags = pre

\* Two cards of two notes, one never reviewed: one note counted and updated
C7_Witness ==
    /\ Ran
    /\ Len(cid_list) = 2
    /\ cid_list[1].nid # cid_list[2].nid
    /\ \E i \in 1..2 : cid_list[i].reps = 0
    /\ processed = 1

\* C8: every note that owns a selected card with reps > 0 and whose tag
\* list had no duplicates carries exactly one difficulty tag after the run:
\* the classifier's label for the last such card in the order supplied.
C8_LastWriteWins ==
    Ran => \A n \in Notes :
        (Owns(n) /\ DupFree(pre[n])) =>
            DifficultyTagsOf(tags[n]) = <<judge_difficulty(LastCard(n), cfg)>>

\* Two reviewed cards of one note with different labels: the second one's stays
C8_Witness ==
    /\ Ran
    /\ Len(cid_list) = 2
    /\ cid_list[1].nid = cid_list[2].nid
    /\ cid_list[1].reps > 0 /\ cid_list[2].reps > 0
    /\ judge_difficulty(cid_list[1], cfg) # judge_difficulty(cid_list[2], cfg)
    /\ DupFree(pre[cid_list[1].nid])
    /\ DifficultyTagsOf(tags[cid_list[1].nid]) = <<judge_difficulty(cid_list[2], cfg)>>

(***************************************************************************)
(* SpecConfig: the settings dialog's Save over the add-on config store     *)
(***************************************************************************)
\* The spin boxes are saved at most MaxSpinSteps steps above their defaults
MaxSpinSteps == 3

\* Stored configs the dialog can meet: none, an empty one, keys this add-on
\* does not know, the defaults, and mixes of them
StoredInit ==
    { None,
      EmptyDict,
      [other_addon_key |-> 7],
      StoredOverride,
      DEFAULTS,
      DictSet(DEFAULTS, "other_addon_key", 7) }

\* The nine spin boxes, each d steps above its default
SpinValues(d) == [k \in DOMAIN DEFAULTS |-> DEFAULTS[k] + d]

InitConfig ==
    /\ stored \in StoredInit
    /\ SaveIdle
    /\ RunIdle
    /\ JudgeIdle

\* ConfigDialog._save with the spin boxes at upd: the merge-write, then the
\* tooltip and accept() when the write path returned; when it raised, the
\* exception leaves _save before either
Save(upd, g, w, s) ==
    /\ LET r == write_config_keep_unknown(stored, upd, g, w, s)
       IN  /\ stored' = r.stored
           /\ calls' = r.calls
           /\ raised' = r.raised
           /\ saved' = ~r.raised
    /\ before' = stored
    /\ updated' = upd
    /\ ClearRun
    /\ UNCHANGED <<tags, dialogs, pending, done, judgeVars>>

NextConfig ==
    \E d \in 0..MaxSpinSteps, g \in Outcomes, w \in Outcomes, s \in Outcomes :
        Save(SpinValues(d), g, w, s)

SpecConfig == InitConfig /\ [][NextConfig]_vars

\* C9: the save path never raises to its caller, whether the store is
\* unavailable or rejects the write: _save goes on to its tooltip, writeConfig
\* is called first, setConfig only after writeConfig failed, and when both
\* fail the save returns with the stored config unchanged.
C9_SaveNeverRaises ==
    (calls # <<>>) =>
        /\ raised = FALSE
        /\ saved = TRUE
        /\ Len(calls) >= 2
        /\ calls[1].api = "getConfig"
        /\ calls[2].api = "writeConfig"
        /\ (Len(calls) = 3) <=> (calls[2].result = "raise")
        /\ (Len(calls) = 3) => calls[3].api = "setConfig"
        /\ (Len(calls) = 3 /\ calls[3].result = "raise") => stored = before
        /\ (calls[Len(calls)].result = "ok") =>
               stored = OverwriteKnown(OrEmptyDict(before), updated, 1)

(***************************************************************************)
(* Spec: the Tools-menu trigger, the background operations, the callbacks *)
(***************************************************************************)
\* Calls of set_difficulty_tags that may be under way at once, from the
\* getText dialog opening to on_success returning
MaxRuns == 1

InFlight == Len(dialogs) + Len(pending) + Len(done)

\* Nothing has run: the add-on is loaded, its menu action registered, the
\* stored config is the user's and no note carries a tag
Init ==
    /\ stored = StoredOverride
    /\ RunIdle
    /\ JudgeIdle
    /\ SaveIdle

\* set_difficulty_tags up to getText: cfg = get_cfg() is read, then the
\* dialog opens and waits for the user in its own event loop.  When the
\* getConfig call inside get_cfg raises, the exception leaves the trigger
\* before the dialog opens.
SetDifficultyTags(g) ==
    /\ InFlight < MaxRuns
    /\ dialogs' = IF g = "ok" THEN Append(dialogs, get_cfg(stored)) ELSE dialogs
    /\ ClearRun
    /\ UNCHANGED <<tags, pending, done, stored, judgeVars, saveVars>>

\* getText returns with ok false: `if not ok: return`, nothing is scheduled.
\* The innermost dialog is the one whose call resumes.
GetTextCancel ==
    /\ dialogs # <<>>
    /\ dialogs' = SubSeq(dialogs, 1, Len(dialogs) - 1)
    /\ ClearRun
    /\ UNCHANGED <<tags, pending, done, stored, judgeVars, saveVars>>

\* getText returns `text` with ok true: the QueryOp is scheduled with the
\* text and the cfg read before the dialog opened
GetTextConfirm(text) ==
    /\ dialogs # <<>>
    /\ dialogs' = SubSeq(dialogs, 1, Len(dialogs) - 1)
    /\ pending' = Append(pending, [search |-> text, cfg |-> dialogs[Len(dialogs)]])
    /\ ClearRun
    /\ UNCHANGED <<tags, done, stored, judgeVars, saveVars>>

\* The oldest QueryOp's op, lambda col: _assign_difficulty_tags(col, search,
\* cfg), the collection answering with the cards cl.  Ops that use the
\* collection run one at a time.
RunOp(cl) ==
    /\ pending # <<>>
    /\ Op(Head(pending).search, Head(pending).cfg, cl)
    /\ pending' = Tail(pending)
    /\ done' = Append(done, [processed |-> processed', matched |-> Len(cl)])
    /\ msg' = NoMsg
    /\ reported' = NoDone
    /\ UNCHANGED <<dialogs, stored, judgeVars, saveVars>>

\* on_success(processed) of the oldest returned op, on the main thread
OnSuccess ==
    /\ done # <<>>
    /\ msg' = IF Head(done).processed = 0
              THEN NoCardsMsg
              ELSE AssignedMsg(Head(done).processed)
    /\ reported' = Head(done)
    /\ done' = Tail(done)
    /\ ClearOp
    /\ UNCHANGED <<tags, dialogs, pending, stored, judgeVars, saveVars>>

Next ==
    \/ \E g \in Outcomes : SetDifficultyTags(g)
    \/ GetTextCancel
    \/ \E text \in Searches : GetTextConfirm(text)
    \/ \E cl \in CardSeqs : RunOp(cl)
    \/ OnSuccess
    \/ \E d \in {0, MaxSpinSteps}, g \in Outcomes, w \in Outcomes, s \in Outcomes :
           Save(SpinValues(d), g, w, s)

Spec == Init /\ [][Next]_vars

\* C10: on completion the trigger reports "no cards matched" exactly when
\* the query matched zero cards, and otherwise "assigned tags to N notes" with
\* N the count the run returned.
C10_NoCardsIffNoneMatched ==
    (msg # NoMsg) =>
        /\ (msg = NoCardsMsg) <=> (reported.matched = 0)
        /\ (msg # NoCardsMsg) => msg = AssignedMsg(reported.processed)

====
